---- MODULE Spec2Model ----
(***************************************************************************)
(* A model of the FastAPI tutorial service of src/main.py: the declared    *)
(* field constraints of Location, Person and LoginOut, the parameter       *)
(* validation that runs before a path operation, and the path operations   *)
(* themselves, served by a pool of workers that share the list `persons`.  *)
(*                                                                         *)
(* A JSON object is a function from the keys it holds to their values; a   *)
(* key that the client left out is not in the DOMAIN.  Strings are TLA+    *)
(* strings; an e-mail address is a sequence of characters so that its      *)
(* shape can be inspected.                                                 *)
(***************************************************************************)
EXTENDS Integers, Sequences, FiniteSets, TLC

VARIABLES persons, slot, mrg

vars == <<persons, slot, mrg>>

-----------------------------------------------------------------------------
(* Bounds of the model                                                     *)

MaxId == 6
NumWorkers == 2
MaxMissing == 1
MaxKeys == 2

Workers == 1..NumWorkers
PathIds == (0 - 1)..MaxId

-----------------------------------------------------------------------------
(* Input alphabets: for every constrained field, values on both sides of   *)
(* each declared limit.                                                    *)

S50 == "nnnnnnnnnnnnnnnnnnnnnnnnnnnnnnnnnnnnnnnnnnnnnnnnnn"
S51 == "nnnnnnnnnnnnnnnnnnnnnnnnnnnnnnnnnnnnnnnnnnnnnnnnnnn"
U20 == "uuuuuuuuuuuuuuuuuuuu"
U21 == "uuuuuuuuuuuuuuuuuuuuu"
M20 == "mmmmmmmmmmmmmmmmmmmm"

GoodEmail == <<"c", "@", "g", ".", "c">>
NoAtEmail == <<"c", "g", ".", "c">>
NoDotEmail == <<"c", "@", "g">>

None == "None"

Drop(f, M) == [k \in DOMAIN f \ M |-> f[k]]

DropSets(keys) == {M \in SUBSET keys : Cardinality(M) <= MaxMissing}

-----------------------------------------------------------------------------
(* Field constraints (pydantic Field / FastAPI Path, Query, Form).  Each   *)
(* operator yields the set of violations of one declared constraint; a     *)
(* violation carries the location of the offending value and the kind of   *)
(* constraint.  A constraint on a value that is absent yields nothing: the *)
(* absence itself is reported by Missing.                                  *)

Violation(loc, k, type) == [loc |-> Append(loc, k), type |-> type]

Missing(loc, obj, required) ==
    {Violation(loc, k, "missing") : k \in required \ DOMAIN obj}

MinLength(loc, obj, k, n) ==
    IF k \in DOMAIN obj /\ Len(obj[k]) < n
    THEN {Violation(loc, k, "min_length")} ELSE {}

MaxLength(loc, obj, k, n) ==
    IF k \in DOMAIN obj /\ Len(obj[k]) > n
    THEN {Violation(loc, k, "max_length")} ELSE {}

\* gt declared where ge was meant: the limit itself is accepted.
Gt_Inclusive(loc, obj, k, n) ==
    IF k \in DOMAIN obj /\ ~(obj[k] >= n)
    THEN {Violation(loc, k, "not_gt")} ELSE {}

Gt(loc, obj, k, n) ==
    IF k \in DOMAIN obj /\ ~(obj[k] > n)
    THEN {Violation(loc, k, "not_gt")} ELSE {}

Le(loc, obj, k, n) ==
    IF k \in DOMAIN obj /\ ~(obj[k] <= n)
    THEN {Violation(loc, k, "not_le")} ELSE {}

HairColor == {"white", "black", "brown", "blonde"}

EnumMember(loc, obj, k, enum) ==
    IF k \in DOMAIN obj /\ obj[k] \notin enum
    THEN {Violation(loc, k, "enum")} ELSE {}

\* EmailStr: exactly one "@", a non-empty local part, and a domain that has
\* a dot with a non-empty label on each side of it.
IsEmail(e) ==
    \E i \in 2..Len(e) :
        /\ e[i] = "@"
        /\ \A j \in 1..Len(e) : e[j] = "@" => j = i
        /\ \E d \in (i + 2)..(Len(e) - 1) : e[d] = "."

Email(loc, obj, k) ==
    IF k \in DOMAIN obj /\ ~IsEmail(obj[k])
    THEN {Violation(loc, k, "email")} ELSE {}

LocationFields == {"city", "state", "country"}

LocationViolations(loc, l) ==
    Missing(loc, l, {"city", "state", "country"})
    \cup MinLength(loc, l, "city", 1) \cup MaxLength(loc, l, "city", 50)
    \cup MinLength(loc, l, "state", 1) \cup MaxLength(loc, l, "state", 50)
    \cup MinLength(loc, l, "country", 1) \cup MaxLength(loc, l, "country", 50)

PersonFields ==
    {"first_name", "last_name", "age", "hair_color", "is_married", "email",
     "password"}

PersonRequired == {"first_name", "last_name", "age", "email", "password"}

\* age declared with lt=115 in place of le=115.
PersonViolations_AgeBelowLimit(loc, p) ==
    Missing(loc, p, PersonRequired)
    \cup MinLength(loc, p, "first_name", 1) \cup MaxLength(loc, p, "first_name", 50)
    \cup MinLength(loc, p, "last_name", 1) \cup MaxLength(loc, p, "last_name", 50)
    \cup Gt(loc, p, "age", 0) \cup Le(loc, p, "age", 114)
    \cup EnumMember(loc, p, "hair_color", HairColor)
    \cup Email(loc, p, "email")
    \cup MinLength(loc, p, "password", 8)

PersonViolations(loc, p) ==
    Missing(loc, p, PersonRequired)
    \cup MinLength(loc, p, "first_name", 1) \cup MaxLength(loc, p, "first_name", 50)
    \cup MinLength(loc, p, "last_name", 1) \cup MaxLength(loc, p, "last_name", 50)
    \cup Gt(loc, p, "age", 0) \cup Le(loc, p, "age", 115)
    \cup EnumMember(loc, p, "hair_color", HairColor)
    \cup Email(loc, p, "email")
    \cup MinLength(loc, p, "password", 8)

\* The validated model: every declared field, an optional field that was
\* left out at its default None.
PersonModel(p) == [k \in PersonFields |-> IF k \in DOMAIN p THEN p[k] ELSE None]

LocationModel(l) == [k \in LocationFields |-> l[k]]

LoginOutViolations(m) == MaxLength(<<>>, m, "username", 20)

\* BaseModel.dict(): the mapping from every field of the model to its value.
Dict(model) == [k \in DOMAIN model |-> model[k]]

\* results = location.dict() in place of results.update(location.dict()).
DictUpdate_Replaces(a, b) == b

\* The earlier mapping's value kept on a collision (setdefault per key).
DictUpdate_FirstWins(a, b) ==
    [k \in DOMAIN a \cup DOMAIN b |-> IF k \in DOMAIN a THEN a[k] ELSE b[k]]

\* dict.update: the keys of both, the later mapping's value on a collision.
DictUpdate(a, b) ==
    [k \in DOMAIN a \cup DOMAIN b |-> IF k \in DOMAIN b THEN b[k] ELSE a[k]]

\* Serialisation through response_model with response_model_exclude.
ResponseModel(model, fields, exclude) == [k \in fields \ exclude |-> model[k]]

-----------------------------------------------------------------------------
(* Requests the clients may send                                           *)

PersonInputs ==
    {Drop(f, M) :
        f \in [first_name : {"", "M", S50, S51},
               last_name : {"", "C", S50, S51},
               age : {0 - 1, 0, 1, 115, 116},
               hair_color : HairColor \cup {"red"},
               is_married : BOOLEAN,
               email : {GoodEmail, NoAtEmail, NoDotEmail},
               password : {"1234567", "12345678"}],
        M \in DropSets(PersonFields)}

LocationInputs ==
    {Drop(f, M) :
        f \in [city : {"", "T", S50, S51}, state : {"B"}, country : {"A", S51}],
        M \in DropSets(LocationFields)}

\* The persons sent together with a location: the names and the e-mail are
\* held at accepted values, the other fields range as in PersonInputs.
PersonInputsWithLocation ==
    {p \in PersonInputs :
        /\ {"first_name", "last_name", "email"} \subseteq DOMAIN p
        /\ p.first_name = "M" /\ p.last_name = "C" /\ p.email = GoodEmail}

LoginForms ==
    {Drop(f, M) :
        f \in [username : {"mcardozo", U20, U21},
               password : {"password", "anything8+"}],
        M \in DropSets({"username", "password"})}

Queries ==
    {Drop(f, M) :
        f \in [name : {"", "Suri", S51}, age : {"18"}],
        M \in DropSets({"name", "age"})}

ContactForms ==
    {Drop(f, M) :
        f \in [first_name : {"M", U21}, last_name : {"C"},
               email : {GoodEmail, NoDotEmail}, message : {"hi", M20}],
        M \in DropSets({"first_name", "last_name", "email", "message"})}

Headers == {Drop(f, M) : f \in [user_agent : {"curl"}], M \in DropSets({"user_agent"})}

Requests ==
    {[ep |-> "home"]}
    \cup [ep : {"create_person"}, person : PersonInputs]
    \cup [ep : {"show_person"}, query : Queries]
    \cup [ep : {"show_person_detail"}, person_id : PathIds]
    \cup [ep : {"update_person"}, person_id : PathIds, person : PersonInputs]
    \cup [ep : {"update_person_location"}, person_id : PathIds,
          person : PersonInputsWithLocation, location : LocationInputs]
    \cup [ep : {"update_location"}, location_id : PathIds, location : LocationInputs]
    \cup [ep : {"login"}, form : LoginForms]
    \cup [ep : {"contact"}, form : ContactForms, headers : Headers]

\* The requests of the concurrent specification: every path operation, with
\* accepted and rejected parameters, over fewer field values.
ExamplePerson ==
    [first_name |-> "M", last_name |-> "C", age |-> 34, hair_color |-> "blonde",
     is_married |-> FALSE, email |-> GoodEmail, password |-> "password"]

ExampleLocation == [city |-> "T", state |-> "B", country |-> "A"]

ConcurrentRequests ==
    {[ep |-> "home"]}
    \cup [ep : {"create_person"}, person : {ExamplePerson}]
    \cup [ep : {"show_person"}, query : {[name |-> "Suri", age |-> "18"]}]
    \cup [ep : {"show_person_detail"}, person_id : PathIds]
    \cup [ep : {"update_person"}, person_id : {5, MaxId},
          person : {ExamplePerson, Drop(ExamplePerson, {"age"})}]
    \cup [ep : {"update_person_location"}, person_id : {MaxId},
          person : {ExamplePerson}, location : {ExampleLocation}]
    \cup [ep : {"update_location"}, location_id : {0, 1}, location : {ExampleLocation}]
    \cup [ep : {"login"}, form : {[username |-> "mcardozo", password |-> "password"]}]
    \cup [ep : {"contact"},
          form : {[first_name |-> "M", last_name |-> "C", email |-> GoodEmail,
                   message |-> M20]},
          headers : Headers]

-----------------------------------------------------------------------------
(* Parameter validation: the violations of every declared parameter of the *)
(* path operation, collected over all of them.                             *)

create_person_params(req) == PersonViolations(<<"body">>, req.person)

show_person_params(req) ==
    Missing(<<"query">>, req.query, {"age"})
    \cup MinLength(<<"query">>, req.query, "name", 1)
    \cup MaxLength(<<"query">>, req.query, "name", 50)

show_person_detail_params(req) == Gt(<<"path">>, req, "person_id", 0)

update_person_params(req) ==
    Gt(<<"path">>, req, "person_id", 0)
    \cup PersonViolations(<<"body">>, req.person)

\* Two body parameters: each is read from the key of its name.
update_person_location_params(req) ==
    Gt(<<"path">>, req, "person_id", 0)
    \cup PersonViolations(<<"body", "person">>, req.person)
    \cup LocationViolations(<<"body", "location">>, req.location)

update_location_params(req) ==
    Gt(<<"path">>, req, "location_id", 0)
    \cup LocationViolations(<<"body">>, req.location)

login_params(req) == Missing(<<"body">>, req.form, {"username", "password"})

contact_params(req) ==
    Missing(<<"body">>, req.form, {"first_name", "last_name", "email", "message"})
    \cup MinLength(<<"body">>, req.form, "first_name", 1)
    \cup MaxLength(<<"body">>, req.form, "first_name", 20)
    \cup MinLength(<<"body">>, req.form, "last_name", 1)
    \cup MaxLength(<<"body">>, req.form, "last_name", 20)
    \cup Email(<<"body">>, req.form, "email")
    \cup MinLength(<<"body">>, req.form, "message", 20)

ParamViolations(req) ==
    CASE req.ep = "home" -> {}
      [] req.ep = "create_person" -> create_person_params(req)
      [] req.ep = "show_person" -> show_person_params(req)
      [] req.ep = "show_person_detail" -> show_person_detail_params(req)
      [] req.ep = "update_person" -> update_person_params(req)
      [] req.ep = "update_person_location" -> update_person_location_params(req)
      [] req.ep = "update_location" -> update_location_params(req)
      [] req.ep = "login" -> login_params(req)
      [] req.ep = "contact" -> contact_params(req)

-----------------------------------------------------------------------------
(* State: the module-level list `persons`, and for each worker the request *)
(* it is serving, how far it got, and the response it sent.                *)

Response(status, body) == [status |-> status, body |-> body]

NoReq == [ep |-> "none"]
NoResp == Response(0, None)
Idle == [pc |-> "idle", req |-> NoReq, resp |-> NoResp]
MergeOff == [pc |-> "off"]

Init ==
    /\ persons = <<1, 2, 3, 4, 5>>
    /\ slot = [w \in Workers |-> Idle]
    /\ mrg = MergeOff

Respond(w, status, body) ==
    slot' = [slot EXCEPT ![w] =
                [pc |-> "done", req |-> @.req, resp |-> Response(status, body)]]

Running(w, ep) == slot[w].pc = "validated" /\ slot[w].req.ep = ep

\* A worker that is free takes the next request.
Receive(w, requests) ==
    /\ slot[w].pc = "idle"
    /\ \E r \in requests :
          slot' = [slot EXCEPT ![w] = [pc |-> "received", req |-> r, resp |-> NoResp]]
    /\ UNCHANGED <<persons, mrg>>

\* Validation that stops at the first violation it meets.
Validate_FailFast(w) ==
    /\ slot[w].pc = "received"
    /\ LET errors == ParamViolations(slot[w].req) IN
          IF errors = {}
          THEN slot' = [slot EXCEPT ![w].pc = "validated"]
          ELSE Respond(w, 422, [detail |-> {CHOOSE e \in errors : TRUE}])
    /\ UNCHANGED <<persons, mrg>>

\* The framework resolves the declared parameters: with any violation the
\* request is answered 422 with all of them and the function is not called.
Validate(w) ==
    /\ slot[w].pc = "received"
    /\ LET errors == ParamViolations(slot[w].req) IN
          IF errors = {}
          THEN slot' = [slot EXCEPT ![w].pc = "validated"]
          ELSE Respond(w, 422, [detail |-> errors])
    /\ UNCHANGED <<persons, mrg>>

home(w) ==
    /\ Running(w, "home")
    /\ Respond(w, 200, [hello |-> "world"])
    /\ UNCHANGED <<persons, mrg>>

create_person(w) ==
    /\ Running(w, "create_person")
    /\ LET person == PersonModel(slot[w].req.person) IN
          Respond(w, 201, ResponseModel(person, PersonFields, {"password"}))
    /\ UNCHANGED <<persons, mrg>>

show_person(w) ==
    /\ Running(w, "show_person")
    /\ LET q == slot[w].req.query
           name == IF "name" \in DOMAIN q THEN q.name ELSE None
       IN  Respond(w, 200, name :> q.age)
    /\ UNCHANGED <<persons, mrg>>

\* A scan of `persons` that stops one element short.
show_person_detail_SkipsLast(w) ==
    /\ Running(w, "show_person_detail")
    /\ LET person_id == slot[w].req.person_id IN
          IF ~(\E i \in 1..(Len(persons) - 1) : persons[i] = person_id)
          THEN Respond(w, 404, [detail |-> "This person does not exist."])
          ELSE Respond(w, 200, person_id :> "It exist!")
    /\ UNCHANGED <<persons, mrg>>

\* A lookup that registers the identifier it did not find.
show_person_detail_Registers(w) ==
    /\ Running(w, "show_person_detail")
    /\ LET person_id == slot[w].req.person_id IN
          IF ~(\E i \in 1..Len(persons) : persons[i] = person_id)
          THEN /\ Respond(w, 404, [detail |-> "This person does not exist."])
               /\ persons' = Append(persons, person_id)
          ELSE /\ Respond(w, 200, person_id :> "It exist!")
               /\ persons' = persons
    /\ mrg' = mrg

show_person_detail(w) ==
    /\ Running(w, "show_person_detail")
    /\ LET person_id == slot[w].req.person_id IN
          IF ~(\E i \in 1..Len(persons) : persons[i] = person_id)
          THEN Respond(w, 404, [detail |-> "This person does not exist."])
          ELSE Respond(w, 200, person_id :> "It exist!")
    /\ UNCHANGED <<persons, mrg>>

update_person(w) ==
    /\ Running(w, "update_person")
    /\ LET person == PersonModel(slot[w].req.person) IN
          Respond(w, 202, Dict(person))
    /\ UNCHANGED <<persons, mrg>>

update_person_location(w) ==
    /\ Running(w, "update_person_location")
    /\ LET person == PersonModel(slot[w].req.person)
           location == LocationModel(slot[w].req.location)
           results == DictUpdate(Dict(person), Dict(location))
       IN  Respond(w, 202, results)
    /\ UNCHANGED <<persons, mrg>>

update_location(w) ==
    /\ Running(w, "update_location")
    /\ Respond(w, 200, Dict(LocationModel(slot[w].req.location)))
    /\ UNCHANGED <<persons, mrg>>

\* LoginOut(username=username) validates inside the function: a violation
\* there is an exception the application does not handle.
login(w) ==
    /\ Running(w, "login")
    /\ LET out == [username |-> slot[w].req.form.username] IN
          IF LoginOutViolations(out) # {}
          THEN Respond(w, 500, "Internal Server Error")
          ELSE Respond(w, 200, ResponseModel(out, {"username"}, {}))
    /\ UNCHANGED <<persons, mrg>>

contact(w) ==
    /\ Running(w, "contact")
    /\ LET h == slot[w].req.headers
           user_agent == IF "user_agent" \in DOMAIN h THEN h.user_agent ELSE None
       IN  Respond(w, 200, user_agent)
    /\ UNCHANGED <<persons, mrg>>

\* The response has been sent: the worker is free again.
Release(w) ==
    /\ slot[w].pc = "done"
    /\ slot' = [slot EXCEPT ![w] = Idle]
    /\ UNCHANGED <<persons, mrg>>

Serve(w) ==
    \/ Validate(w)
    \/ Release(w)
    \/ home(w)
    \/ create_person(w)
    \/ show_person(w)
    \/ show_person_detail(w)
    \/ update_person(w)
    \/ update_person_location(w)
    \/ update_location(w)
    \/ login(w)
    \/ contact(w)

\* One request at a time, over the full range of inputs.
Next == Receive(1, Requests) \/ Serve(1)

Spec == Init /\ [][Next]_vars

\* Every worker serving at once, in any interleaving.
NextConcurrent == \E w \in Workers : Receive(w, ConcurrentRequests) \/ Serve(w)

SpecConcurrent == Init /\ [][NextConcurrent]_vars

-----------------------------------------------------------------------------
(* The merge on its own: three mappings over a few keys, merged in order   *)
(* as update_person_location merges its two, merged with the last two      *)
(* grouped first, and the first two merged in the opposite order.          *)

KeyNames == <<"first_name", "city", "age", "country">>
MergeKeys == {KeyNames[i] : i \in 1..MaxKeys}
Dicts == UNION {[D -> {"x", "y"}] : D \in SUBSET MergeKeys}
EmptyDict == [k \in {} |-> "x"]

InitMerge ==
    /\ persons = <<1, 2, 3, 4, 5>>
    /\ slot = [w \in Workers |-> Idle]
    /\ mrg \in [pc : {"start"}, a : Dicts, b : Dicts, c : Dicts,
                ab : {EmptyDict}, ab_c : {EmptyDict}, a_bc : {EmptyDict},
                ba : {EmptyDict}]

\* results = a.dict(); results.update(b); results.update(c)
MergeInOrder ==
    /\ mrg.pc = "start"
    /\ LET results == DictUpdate(Dict(mrg.a), mrg.b) IN
          mrg' = [mrg EXCEPT !.pc = "in_order", !.ab = results,
                             !.ab_c = DictUpdate(results, mrg.c)]
    /\ UNCHANGED <<persons, slot>>

\* later = b.dict(); later.update(c); results = a.dict(); results.update(later)
MergeGrouped ==
    /\ mrg.pc = "in_order"
    /\ LET later == DictUpdate(Dict(mrg.b), mrg.c) IN
          mrg' = [mrg EXCEPT !.pc = "grouped", !.a_bc = DictUpdate(Dict(mrg.a), later)]
    /\ UNCHANGED <<persons, slot>>

\* results = b.dict(); results.update(a)
MergeSwapped ==
    /\ mrg.pc = "grouped"
    /\ mrg' = [mrg EXCEPT !.pc = "done", !.ba = DictUpdate(Dict(mrg.b), mrg.a)]
    /\ UNCHANGED <<persons, slot>>

NextMerge == MergeInOrder \/ MergeGrouped \/ MergeSwapped

SpecMerge == InitMerge /\ [][NextMerge]_vars
-----------------------------------------------------------------------------
(* The properties.  They state what a client sees, from the request it     *)
(* sent and the response it got, in terms of the documented limits.        *)

Done(w) == slot[w].pc = "done"
Sent(w) == slot[w].req
Got(w) == slot[w].resp
Success(w) == Done(w) /\ Got(w).status \in 200..299

PersonEndpoints == {"create_person", "update_person", "update_person_location"}
KnownIds == {1, 2, 3, 4, 5}

\* A person within every documented limit.
WellFormedPerson(p) ==
    /\ {"first_name", "last_name", "age", "email", "password"} \subseteq DOMAIN p
    /\ Len(p.first_name) \in 1..50
    /\ Len(p.last_name) \in 1..50
    /\ p.age \in 1..115
    /\ IsEmail(p.email)
    /\ Len(p.password) >= 8
    /\ "hair_color" \in DOMAIN p => p.hair_color \in {"white", "black", "brown", "blonde"}

WellFormedLocation(l) ==
    /\ DOMAIN l = {"city", "state", "country"}
    /\ \A k \in DOMAIN l : Len(l[k]) \in 1..50

\* The fields of a person, of a location and of the other parameters that
\* break a documented limit, each by its place in the request.
BadPersonFields(p) ==
    {k \in {"first_name", "last_name", "age", "email", "password"} : k \notin DOMAIN p}
    \cup {k \in {"first_name", "last_name"} \cap DOMAIN p : Len(p[k]) \notin 1..50}
    \cup {k \in {"age"} \cap DOMAIN p : p[k] \notin 1..115}
    \cup {k \in {"hair_color"} \cap DOMAIN p :
             p[k] \notin {"white", "black", "brown", "blonde"}}
    \cup {k \in {"email"} \cap DOMAIN p : ~IsEmail(p[k])}
    \cup {k \in {"password"} \cap DOMAIN p : Len(p[k]) < 8}

BadLocationFields(l) ==
    {k \in {"city", "state", "country"} : k \notin DOMAIN l \/ Len(l[k]) \notin 1..50}

BadId(req, k) == {x \in {k} : req[k] <= 0}

At(prefix, fields) == {Append(prefix, k) : k \in fields}

BadPlaces(req) ==
    CASE req.ep = "home" -> {}
      [] req.ep = "create_person" -> At(<<"body">>, BadPersonFields(req.person))
      [] req.ep = "show_person" ->
            At(<<"query">>,
               {k \in {"age"} : k \notin DOMAIN req.query}
               \cup {k \in {"name"} \cap DOMAIN req.query :
                        Len(req.query[k]) \notin 1..50})
      [] req.ep = "show_person_detail" -> At(<<"path">>, BadId(req, "person_id"))
      [] req.ep = "update_person" ->
            At(<<"path">>, BadId(req, "person_id"))
            \cup At(<<"body">>, BadPersonFields(req.person))
      [] req.ep = "update_person_location" ->
            At(<<"path">>, BadId(req, "person_id"))
            \cup At(<<"body", "person">>, BadPersonFields(req.person))
            \cup At(<<"body", "location">>, BadLocationFields(req.location))
      [] req.ep = "update_location" ->
            At(<<"path">>, BadId(req, "location_id"))
            \cup At(<<"body">>, BadLocationFields(req.location))
      [] req.ep = "login" ->
            At(<<"body">>, {"username", "password"} \ DOMAIN req.form)
      [] req.ep = "contact" ->
            At(<<"body">>,
               ({"first_name", "last_name", "email", "message"} \ DOMAIN req.form)
               \cup {k \in {"first_name", "last_name"} \cap DOMAIN req.form :
                        Len(req.form[k]) \notin 1..20}
               \cup {k \in {"email"} \cap DOMAIN req.form : ~IsEmail(req.form[k])}
               \cup {k \in {"message"} \cap DOMAIN req.form : Len(req.form[k]) < 20})

Rejected(w) == Done(w) /\ Got(w).status = 422
Reported(w) == {e.loc : e \in Got(w).body.detail}
Names(e, k) == e.loc[Len(e.loc)] = k

\* C1: on POST /person/new, PUT /person/{id} and PUT /person-location/{id},
\* the body of the response to a valid request has no `password` field.
C1_PasswordNeverReturned ==
    \A w \in Workers :
        Success(w) /\ Sent(w).ep \in PersonEndpoints
            => "password" \notin DOMAIN Got(w).body

\* C2: a person within every limit, sent to POST /person/new, passes
\* validation and is answered 201 with a record that has no `password`.
C2_ValidPersonCreated ==
    \A w \in Workers :
        Done(w) /\ Sent(w).ep = "create_person" /\ WellFormedPerson(Sent(w).person)
            => /\ Got(w).status = 201
               /\ "password" \notin DOMAIN Got(w).body

C2_Witness ==
    /\ Success(1) /\ Sent(1).ep = "create_person"
    /\ Sent(1).person.age = 115 /\ Len(Sent(1).person.first_name) = 50
    /\ "hair_color" \notin DOMAIN Sent(1).person

\* C3: a person whose age is <= 0 or > 115 is rejected with 422 and a range
\* violation naming `age` on every endpoint that takes a person, whatever
\* its other fields; ages 1 and 115 draw no violation naming `age`.
C3_AgeOutOfRangeRejected ==
    \A w \in Workers :
        Done(w) /\ Sent(w).ep \in PersonEndpoints /\ "age" \in DOMAIN Sent(w).person
            => LET age == Sent(w).person.age IN
               /\ age <= 0 \/ age > 115
                    => /\ Got(w).status = 422
                       /\ \E e \in Got(w).body.detail :
                             Names(e, "age") /\ e.type \in {"not_gt", "not_le"}
               /\ age \in {1, 115} /\ Got(w).status = 422
                    => \A e \in Got(w).body.detail : ~Names(e, "age")
               /\ age \in {1, 115} /\ BadPlaces(Sent(w)) = {} => Success(w)

C3_Witness ==
    /\ Rejected(1) /\ Sent(1).ep = "update_person_location"
    /\ Sent(1).person.age = 116 /\ Sent(1).person_id = 0
    /\ "password" \notin DOMAIN Sent(1).person
    /\ Cardinality(Got(1).body.detail) >= 3

\* C4: validation is atomic and aggregating: the function of a path
\* operation runs only on a request with no violated or missing field, no
\* response other than 422 comes from any other request, and a 422 lists
\* exactly one entry for every violated field.
C4_ValidationAtomicAggregating ==
    \A w \in Workers :
        /\ slot[w].pc = "validated" => BadPlaces(Sent(w)) = {}
        /\ Done(w) /\ Got(w).status # 422 => BadPlaces(Sent(w)) = {}
        /\ Rejected(w) => /\ BadPlaces(Sent(w)) # {}
                          /\ Reported(w) = BadPlaces(Sent(w))
                          /\ Cardinality(Got(w).body.detail)
                                = Cardinality(BadPlaces(Sent(w)))

C4_Witness ==
    /\ Rejected(1) /\ Sent(1).ep = "update_person_location"
    /\ Reported(1) = {<<"path", "person_id">>, <<"body", "person", "age">>,
                      <<"body", "person", "hair_color">>,
                      <<"body", "person", "password">>,
                      <<"body", "location", "city">>,
                      <<"body", "location", "country">>}

\* C5: GET /person/detail/{id} answers 200 with {id: "It exist!"} exactly
\* when id is one of 1..5, 404 for any other id > 0, and 422 for id <= 0.
C5_DetailByMembership ==
    \A w \in Workers :
        Done(w) /\ Sent(w).ep = "show_person_detail"
            => LET id == Sent(w).person_id IN
               /\ id \in KnownIds
                    => /\ Got(w).status = 200
                       /\ DOMAIN Got(w).body = {id}
                       /\ Got(w).body[id] = "It exist!"
               /\ id > 0 /\ id \notin KnownIds => Got(w).status = 404
               /\ id <= 0 => Got(w).status = 422

C5_Witness ==
    /\ Done(1) /\ Sent(1).ep = "show_person_detail"
    /\ Sent(1).person_id = MaxId /\ Got(1).status = 404

\* C6: PUT /person-location/{id} with a valid person and a valid location
\* answers 202 with one flat mapping whose keys are the fields of Person
\* and of Location, each with the value of its own record, a key of both
\* taking the location's value.
C6_MergedRecord ==
    \A w \in Workers :
        /\ Done(w) /\ Sent(w).ep = "update_person_location" /\ Sent(w).person_id > 0
        /\ WellFormedPerson(Sent(w).person) /\ WellFormedLocation(Sent(w).location)
        => LET p == Sent(w).person
               l == Sent(w).location
               body == Got(w).body
           IN  /\ Got(w).status = 202
               /\ DOMAIN body = PersonFields \cup LocationFields
               /\ \A k \in LocationFields : body[k] = l[k]
               /\ \A k \in (DOMAIN p) \ LocationFields : body[k] = p[k]
               /\ \A k \in PersonFields \ (DOMAIN p \cup LocationFields) :
                     body[k] = None

C6_Witness ==
    /\ Success(1) /\ Sent(1).ep = "update_person_location"
    /\ "is_married" \notin DOMAIN Sent(1).person
    /\ Len(Got(1).body.city) = 50 /\ Got(1).body.age = 1

\* C7: POST /login with a username and a password answers 200 with a record
\* whose only field is the submitted username; the only failure is a 422
\* for a missing form field.
C7_LoginEchoesUsername ==
    \A w \in Workers :
        Done(w) /\ Sent(w).ep = "login"
            => IF {"username", "password"} \subseteq DOMAIN Sent(w).form
               THEN /\ Got(w).status = 200
                    /\ Got(w).body = [username |-> Sent(w).form.username]
               ELSE Got(w).status = 422

\* C8: PUT /person/{id} with a valid person fails with 404 when id is not a
\* known identifier, and succeeds only for a valid person and a known id.
C8_UpdateUnknownIdNotFound ==
    \A w \in Workers :
        Done(w) /\ Sent(w).ep = "update_person"
            => /\ WellFormedPerson(Sent(w).person) /\ Sent(w).person_id > 0
                  /\ Sent(w).person_id \notin KnownIds => Got(w).status = 404
               /\ Success(w) => Sent(w).person_id \in KnownIds

\* C9: `persons` is [1,2,3,4,5] in every reachable state, whatever requests
\* the workers served and however they interleaved, and two workers that
\* served the same request gave the same response.
C9_PersonsNeverWritten ==
    /\ persons = <<1, 2, 3, 4, 5>>
    /\ \A v, w \in Workers :
          /\ Done(v) /\ Done(w)
          /\ Sent(v).ep = Sent(w).ep /\ Sent(v) = Sent(w)
          => Got(v) = Got(w)

C9_Witness ==
    /\ Done(1) /\ Done(2)
    /\ Sent(1) = [ep |-> "show_person_detail", person_id |-> MaxId]
    /\ Sent(2) = Sent(1)
    /\ Got(1).status = 404

\* C10: merging is associative and the later writer wins: merging a, b, c
\* in order equals merging a with the merge of b and c, every key of the
\* result has the value of the last of a, b, c that defines it, and two
\* mappings with no common key merge to the same mapping in either order.
C10_MergeAssociativeLastWins ==
    mrg.pc = "done"
        => /\ mrg.ab_c = mrg.a_bc
           /\ DOMAIN mrg.ab_c = DOMAIN mrg.a \cup DOMAIN mrg.b \cup DOMAIN mrg.c
           /\ \A k \in DOMAIN mrg.ab_c :
                 mrg.ab_c[k] = IF k \in DOMAIN mrg.c THEN mrg.c[k]
                               ELSE IF k \in DOMAIN mrg.b THEN mrg.b[k]
                               ELSE mrg.a[k]
           /\ DOMAIN mrg.a \cap DOMAIN mrg.b = {} => mrg.ab = mrg.ba

C10_Witness ==
    /\ mrg.pc = "done"
    /\ DOMAIN mrg.a = MergeKeys /\ DOMAIN mrg.b = MergeKeys /\ DOMAIN mrg.c # MergeKeys
    /\ DOMAIN mrg.c # {}
    /\ \E k \in DOMAIN mrg.c : mrg.a[k] # mrg.b[k] /\ mrg.b[k] # mrg.c[k]
    /\ \E k \in MergeKeys \ DOMAIN mrg.c : mrg.a[k] # mrg.b[k]
====
